---- MODULE Spec2Model ----
(***************************************************************************)
(* Model of the papertrail sink (src/sinks/papertrail.rs).                 *)
(*                                                                         *)
(* PapertrailConfig::build resolves the endpoint and the TLS settings,     *)
(* captures the process id and the encoding configuration, and hands the   *)
(* closure |event| encode_event(event, pid, &encoding) to the TCP sink.    *)
(* encode_event turns one log event into one RFC3164 syslog line.          *)
(*                                                                         *)
(* Strings are sequences of one-character strings, so that escaping,       *)
(* framing and parsing are computed on the bytes the code produces.        *)
(***************************************************************************)
EXTENDS Integers, Sequences, FiniteSets, TLC

VARIABLES config, os_pid, upstream, sink, clock, workers, crashed

vars == <<config, os_pid, upstream, sink, clock, workers, crashed>>

(* ------------------------------ bounds --------------------------------- *)

\* Largest reading of the wall clock (seconds shown in the syslog header).
MaxClock == 1

\* Number of transport worker contexts that may run the encoder at once.
NumWorkers == 2

(* ------------------------------ strings -------------------------------- *)

NL == "\n"
QUOTE == "\""
BACKSLASH == "\\"

Digits == <<"0", "1", "2", "3", "4", "5", "6", "7", "8", "9">>

\* The characters of the model in ASCII order; Code is order-preserving.
Alphabet ==
    <<"\n", " ", "\"", "-", "0", "1", "2", "3", "4", "5", "6", "7", "8", "9",
      ":", "<", ">", "J", "N", "[", "\\", "]", "a", "c", "e", "g", "h", "i", "k",
      "l", "m", "n", "o", "r", "s", "t", "u", "v", "x", "y", "{", "}">>

Code(c) == CHOOSE i \in 1..Len(Alphabet) : Alphabet[i] = c

RECURSIVE StrLess(_, _)
\* Byte-wise lexicographic order of two strings (the order of a BTreeMap<String, _>).
StrLess(a, b) ==
    IF b = <<>> THEN FALSE
    ELSE IF a = <<>> THEN TRUE
    ELSE IF Head(a) = Head(b) THEN StrLess(Tail(a), Tail(b))
    ELSE Code(Head(a)) < Code(Head(b))

RECURSIVE NatDecimal(_)
NatDecimal(n) ==
    IF n < 10 THEN <<Digits[n + 1]>>
    ELSE NatDecimal(n \div 10) \o <<Digits[(n % 10) + 1]>>

\* Display of a signed integer ("{}" of an i32 / i64 / u16).  The digits of
\* a negative number are computed without negating it, so that i32::MIN
\* is rendered too.
IntDecimal(n) ==
    IF n >= 0 THEN NatDecimal(n)
    ELSE LET d == (10 - (n % 10)) % 10
             rest == (0 - (n + d)) \div 10
         IN  <<"-">> \o (IF rest = 0 THEN <<>> ELSE NatDecimal(rest)) \o <<Digits[d + 1]>>

RECURSIVE Concat(_)
Concat(ss) == IF ss = <<>> THEN <<>> ELSE Head(ss) \o Concat(Tail(ss))

\* Does the string p occur in s starting at position i?
OccursAt(s, p, i) ==
    /\ i >= 1
    /\ i + Len(p) - 1 <= Len(s)
    /\ \A j \in 1..Len(p) : s[i + j - 1] = p[j]

StartsWith(s, p) == OccursAt(s, p, 1)

(* ------------------------------ options -------------------------------- *)

None == [some |-> FALSE, v |-> <<>>]
Some(x) == [some |-> TRUE, v |-> x]

(* --------------------------- events and values ------------------------- *)

\* log_schema().host_key() and log_schema().message_key(), default schema.
host_key == <<"h", "o", "s", "t">>
message_key == <<"m", "e", "s", "s", "a", "g", "e">>
magic_key == <<"m", "a", "g", "i", "c">>

Keys == {host_key, message_key, magic_key}

\* Value::Bytes, Value::Integer and a non-finite Value::Float.
Bytes(s) == [t |-> "Bytes", s |-> s, n |-> 0]
Integer(n) == [t |-> "Integer", s |-> <<>>, n |-> n]
FloatNaN == [t |-> "Float", s |-> <<"N", "a", "N">>, n |-> 0]

Vector == <<"v", "e", "c", "t", "o", "r">>
KeyStr == <<"k", "e", "y">>
\* A string with a quote, a backslash and a newline in it.
Tricky == <<"a", "\"", "\\", "\n">>

\* Value::to_string_lossy: the display string of a value.
to_string_lossy(v) ==
    IF v.t = "Bytes" THEN v.s
    ELSE IF v.t = "Integer" THEN IntDecimal(v.n)
    ELSE v.s

\* LogEvent::remove(key): the event without the key.
Remove(log, k) == [x \in (DOMAIN log) \ {k} |-> log[x]]

\* LogEvent::get(key)
Get(log, k) == IF k \in DOMAIN log THEN Some(log[k]) ELSE None

(* ------------------------------ encoding rules ------------------------- *)

\* EncodingConfig { codec, only_fields, except_fields }
EncodingConfig(codec, only, except) ==
    [codec |-> codec, only_fields |-> only, except_fields |-> except]

\* EncodingConfiguration::apply_rules: drop the except_fields, then keep
\* only the only_fields.
apply_rules(encoding, log) ==
    LET afterExcept ==
            IF encoding.except_fields.some
            THEN [k \in (DOMAIN log) \ encoding.except_fields.v |-> log[k]]
            ELSE log
    IN  IF encoding.only_fields.some
        THEN [k \in (DOMAIN afterExcept) \cap encoding.only_fields.v |-> afterExcept[k]]
        ELSE afterExcept

(* ------------------------------ JSON ----------------------------------- *)

\* serde_json's string escaping for the characters of the model.
EscapeChar(c) ==
    IF c = QUOTE THEN <<BACKSLASH, QUOTE>>
    ELSE IF c = BACKSLASH THEN <<BACKSLASH, BACKSLASH>>
    ELSE IF c = NL THEN <<BACKSLASH, "n">>
    ELSE <<c>>

RECURSIVE EscapeStr(_)
EscapeStr(s) == IF s = <<>> THEN <<>> ELSE EscapeChar(Head(s)) \o EscapeStr(Tail(s))

JsonString(s) == <<QUOTE>> \o EscapeStr(s) \o <<QUOTE>>

\* Does JSON have the value? (It has no non-finite number.)
Representable(v) == v.t # "Float"

\* impl Serialize for Value: a string, an integer, or a float handed to
\* serialize_f64, which writes null for a non-finite number.
JsonValue(v) ==
    IF v.t = "Bytes" THEN JsonString(v.s)
    ELSE IF v.t = "Integer" THEN IntDecimal(v.n)
    ELSE <<"n", "u", "l", "l">>

RECURSIVE SortedKeys(_)
\* The keys of an event in BTreeMap order.
SortedKeys(ks) ==
    IF ks = {} THEN <<>>
    ELSE LET m == CHOOSE k \in ks : \A o \in ks \ {k} : StrLess(k, o)
         IN  <<m>> \o SortedKeys(ks \ {m})

RECURSIVE JsonMembers(_, _)
JsonMembers(log, ks) ==
    IF ks = <<>> THEN <<>>
    ELSE JsonString(Head(ks)) \o <<":">> \o JsonValue(log[Head(ks)])
         \o (IF Len(ks) > 1 THEN <<",">> ELSE <<>>)
         \o JsonMembers(log, Tail(ks))

\* serde_json::to_string(&log): a Result, which for a map with string keys
\* into a String is always Ok(compact object).
to_string(log) ==
    [ok |-> TRUE, s |-> <<"{">> \o JsonMembers(log, SortedKeys(DOMAIN log)) \o <<"}">>]

\* A parsed JSON value: a string, a number or null.
JString(s) == [t |-> "String", s |-> s, n |-> 0]
JNumber(n) == [t |-> "Number", s |-> <<>>, n |-> n]
JNull == [t |-> "Null", s |-> <<>>, n |-> 0]

StrFail(i) == [ok |-> FALSE, val |-> <<>>, next |-> i]
ValFail(i) == [ok |-> FALSE, val |-> JNumber(0), next |-> i]
ObjFail == [ok |-> FALSE, map |-> <<>>]

RECURSIVE ReadStr(_, _, _)
\* Read the characters of a JSON string up to its closing quote.
ReadStr(s, i, acc) ==
    IF i > Len(s) THEN StrFail(i)
    ELSE IF s[i] = QUOTE THEN [ok |-> TRUE, val |-> acc, next |-> i + 1]
    ELSE IF s[i] = NL THEN StrFail(i)
    ELSE IF s[i] = BACKSLASH
         THEN IF i + 1 > Len(s) THEN StrFail(i)
              ELSE IF s[i + 1] = "n" THEN ReadStr(s, i + 2, Append(acc, NL))
              ELSE IF s[i + 1] \in {QUOTE, BACKSLASH}
                   THEN ReadStr(s, i + 2, Append(acc, s[i + 1]))
              ELSE StrFail(i)
    ELSE ReadStr(s, i + 1, Append(acc, s[i]))

ParseStr(s, i) ==
    IF i <= Len(s) /\ s[i] = QUOTE THEN ReadStr(s, i + 1, <<>>) ELSE StrFail(i)

IsDigit(c) == \E d \in 1..10 : Digits[d] = c
DigitVal(c) == (CHOOSE d \in 1..10 : Digits[d] = c) - 1

RECURSIVE ReadDigits(_, _, _)
ReadDigits(s, i, acc) ==
    IF i <= Len(s) /\ IsDigit(s[i])
    THEN ReadDigits(s, i + 1, acc * 10 + DigitVal(s[i]))
    ELSE [n |-> acc, next |-> i]

ParseNum(s, i) ==
    LET neg == i <= Len(s) /\ s[i] = "-"
        start == IF neg THEN i + 1 ELSE i
        r == ReadDigits(s, start, 0)
    IN  IF r.next = start THEN ValFail(i)
        ELSE [ok |-> TRUE, val |-> JNumber(IF neg THEN 0 - r.n ELSE r.n), next |-> r.next]

ParseVal(s, i) ==
    IF i <= Len(s) /\ s[i] = QUOTE
    THEN LET r == ParseStr(s, i)
         IN  [ok |-> r.ok, val |-> JString(r.val), next |-> r.next]
    ELSE IF OccursAt(s, <<"n", "u", "l", "l">>, i)
         THEN [ok |-> TRUE, val |-> JNull, next |-> i + 4]
    ELSE ParseNum(s, i)

RECURSIVE ParseMembers(_, _, _)
ParseMembers(s, i, acc) ==
    LET k == ParseStr(s, i)
    IN  IF ~k.ok THEN ObjFail
        ELSE IF k.next > Len(s) \/ s[k.next] # ":" THEN ObjFail
        ELSE LET v == ParseVal(s, k.next + 1)
                 acc2 == [x \in (DOMAIN acc) \cup {k.val} |->
                             IF x = k.val THEN v.val ELSE acc[x]]
             IN  IF ~v.ok \/ v.next > Len(s) THEN ObjFail
                 ELSE IF s[v.next] = "," THEN ParseMembers(s, v.next + 1, acc2)
                 ELSE IF s[v.next] = "}" /\ v.next = Len(s)
                      THEN [ok |-> TRUE, map |-> acc2]
                 ELSE ObjFail

\* serde_json::from_slice: the object a JSON text parses to, or a failure.
from_slice(s) ==
    IF s = <<"{", "}">> THEN [ok |-> TRUE, map |-> <<>>]
    ELSE IF Len(s) < 2 \/ s[1] # "{" THEN ObjFail
    ELSE ParseMembers(s, 2, <<>>)

(* ------------------------------ syslog --------------------------------- *)

\* Facility::LOG_USER (1 << 3) and Severity::LOG_INFO.
LOG_USER == 8
LOG_INFO == 6

\* The "process" of the formatter.
ProcessName == <<"v", "e", "c", "t", "o", "r">>

\* A u32 as its two 16-bit halves.
U32(hi, lo) == [hi |-> hi, lo |-> lo]

\* pid as i32: the two's complement reading of the 32 bits.
AsI32(pid) ==
    IF pid.hi >= 32768 THEN (pid.hi - 65536) * 65536 + pid.lo
    ELSE pid.hi * 65536 + pid.lo

\* time::now().strftime("%b %d %T") at clock reading t (t seconds past
\* midnight of the first of January).
Timestamp(t) == <<"J", "a", "n", " ", "0", "1", " ", "0", "0", ":", "0", "0", ":", "0">> \o NatDecimal(t)

\* syslog::encode_priority
Priority(severity, facility) == facility + severity

\* Everything Formatter3164::format writes before the message.
Header(f, severity, t) ==
    <<"<">> \o NatDecimal(Priority(severity, f.facility)) \o <<">">> \o Timestamp(t) \o <<" ">>
    \o (IF f.hostname.some THEN f.hostname.v \o <<" ">> ELSE <<>>)
    \o f.process \o <<"[">> \o IntDecimal(f.pid) \o <<"]", ":", " ">>

\* Formatter3164::format(&mut s, severity, message)
Format3164(f, severity, t, message) == Header(f, severity, t) \o message

(* ------------------------------ encode_event --------------------------- *)

\* ExtractHost with the host read by get instead of remove: the field stays
\* in the event.
ExtractHostKeep(event) ==
    IF host_key \in DOMAIN event
    THEN [host |-> Some(to_string_lossy(event[host_key])), log |-> event]
    ELSE [host |-> None, log |-> event]

\* The host: the display string of the field at the host key, which is
\* removed from the event.
ExtractHost(event) ==
    IF host_key \in DOMAIN event
    THEN [host |-> Some(to_string_lossy(event[host_key])), log |-> Remove(event, host_key)]
    ELSE [host |-> None, log |-> event]

\* Formatter3164 { facility, hostname, process, pid }
MakeFormatter(host, pid) ==
    [facility |-> LOG_USER, hostname |-> host, process |-> ProcessName, pid |-> AsI32(pid)]

\* Message with a Text arm that falls back to the whole event when there is
\* no message field.
MessageTextFallback(encoding, log) ==
    IF encoding.codec = "Json" THEN to_string(log)
    ELSE LET m == Get(log, message_key)
         IN  [ok |-> TRUE,
              s |-> IF m.some THEN to_string_lossy(m.v)
                    ELSE Concat([i \in 1..Len(SortedKeys(DOMAIN log)) |->
                                    to_string_lossy(log[SortedKeys(DOMAIN log)[i]])])]

\* The message of the syslog line: match encoding.codec() { Json, Text }.
Message(encoding, log) ==
    IF encoding.codec = "Json" THEN to_string(log)
    ELSE LET m == Get(log, message_key)
         IN  [ok |-> TRUE, s |-> IF m.some THEN to_string_lossy(m.v) ELSE <<>>]

\* formatter.format(&mut s, Severity::LOG_INFO, message); s.push(b'\n')
Frame(formatter, t, message) == Append(Format3164(formatter, LOG_INFO, t, message), NL)

\* encode_event as one function of the event, the pid, the encoding rules
\* and the reading of the clock: Some(bytes), or a panic of the unwrap.
encode_event(event, pid, encoding, t) ==
    LET h == ExtractHost(event)
        formatter == MakeFormatter(h.host, pid)
        log == apply_rules(encoding, h.log)
        m == Message(encoding, log)
    IN  IF m.ok THEN [kind |-> "Some", bytes |-> Frame(formatter, t, m.s)]
        ELSE [kind |-> "panic", bytes |-> <<>>]

(* ------------------------------ build ---------------------------------- *)

\* UriSerde with its optional host and port.
Endpoint(host, port) == [host |-> host, port |-> port]

\* TlsConfig { enabled, ca_path, .. }
TlsConfig(enabled, ca_path) == [enabled |-> enabled, ca_path |-> ca_path]

\* TlsConfig::enabled()
TlsConfig_enabled == TlsConfig("true", "None")

\* PapertrailConfig { endpoint, encoding, tls }
PapertrailConfig(endpoint, encoding, tls) ==
    [endpoint |-> endpoint, encoding |-> encoding, tls |-> tls]

MissingHost == "A host is required for endpoint"
MissingPort == "A port is required for endpoint"

NoEncoding == EncodingConfig("Text", None, None)

Unbuilt ==
    [state |-> "unbuilt", error |-> "", address |-> <<>>, tls |-> None,
     pid |-> U32(0, 0), encoding |-> NoEncoding]

\* TlsPolicy that hands the optional tls block over as it is.
TlsPolicyPassThrough(tls) == tls

\* Some(this.tls.unwrap_or_else(TlsConfig::enabled))
TlsPolicy(tls) == Some(IF tls.some THEN tls.v ELSE TlsConfig_enabled)

\* format!("{}:{}", host, port)
Address(host, port) == host \o <<":">> \o IntDecimal(port)

\* build with the port looked at before the host.
buildPortFirst(this, pid) ==
    IF ~this.endpoint.port.some THEN [Unbuilt EXCEPT !.state = "failed", !.error = MissingPort]
    ELSE IF ~this.endpoint.host.some THEN [Unbuilt EXCEPT !.state = "failed", !.error = MissingHost]
    ELSE [state |-> "built", error |-> "",
          address |-> Address(this.endpoint.host.v, this.endpoint.port.v),
          tls |-> TlsPolicy(this.tls), pid |-> pid, encoding |-> this.encoding]

\* PapertrailConfig::build: the error of the first missing part of the
\* endpoint, or the TCP sink with the encoder closed over pid and encoding.
build(this, pid) ==
    IF ~this.endpoint.host.some THEN [Unbuilt EXCEPT !.state = "failed", !.error = MissingHost]
    ELSE IF ~this.endpoint.port.some THEN [Unbuilt EXCEPT !.state = "failed", !.error = MissingPort]
    ELSE [state |-> "built", error |-> "",
          address |-> Address(this.endpoint.host.v, this.endpoint.port.v),
          tls |-> TlsPolicy(this.tls), pid |-> pid, encoding |-> this.encoding]

(* ------------------------------ inputs --------------------------------- *)

ValuesSample == {Bytes(Vector), Bytes(Tricky), Integer(0 - 7), FloatNaN}

\* Every event over the three keys and the sample values.
EventsWide == UNION {[K -> ValuesSample] : K \in SUBSET Keys}

Ev1(k1, v1) == [k \in {k1} |-> v1]
Ev2(k1, v1, k2, v2) == [k \in {k1, k2} |-> IF k = k1 THEN v1 ELSE v2]

EventsFew ==
    { Ev2(message_key, Bytes(Vector), magic_key, Bytes(KeyStr)),
      Ev2(host_key, Bytes(Vector), message_key, Integer(7)),
      Ev1(message_key, FloatNaN),
      Ev1(message_key, Bytes(Tricky)) }

Codecs == {"Json", "Text"}

Filters ==
    {<<None, None>>}
    \cup {<<Some(S), None>> : S \in SUBSET Keys}
    \cup {<<None, Some(S)>> : S \in SUBSET Keys}

Policies == {EncodingConfig(c, f[1], f[2]) : c \in Codecs, f \in Filters}

LogsHost == <<"l", "o", "g", "s">>
GoodEndpoint == Endpoint(Some(LogsHost), Some(12345))

Endpoints == {Endpoint(h, p) : h \in {None, Some(LogsHost)}, p \in {None, Some(0), Some(12345)}}

TlsOptions ==
    {None, Some(TlsConfig("true", "None")), Some(TlsConfig("false", "None")),
     Some(TlsConfig("None", "ca.pem"))}

\* The events the upstream of the sink produces.
UpstreamEvents(u) == IF u = "wide" THEN EventsWide ELSE EventsFew

\* std::process::id(): 0, 1234, 2^31 - 1, 2^31 and 2^32 - 1.
Pids == {U32(0, 0), U32(0, 1234), U32(32767, 65535), U32(32768, 0), U32(65535, 65535)}

(* ------------------------------ state machine -------------------------- *)

NoFormatter == [facility |-> LOG_USER, hostname |-> None, process |-> <<>>, pid |-> 0]

\* A worker that is not inside encode_event.
IdleWorker ==
    [pc |-> "idle", event |-> <<>>, log |-> <<>>, formatter |-> NoFormatter,
     message |-> <<>>, t |-> 0, out |-> None]

\* One sink, every encoding policy, every sample event, one worker.
InitEncode ==
    /\ config \in {PapertrailConfig(GoodEndpoint, e, None) : e \in Policies}
    /\ os_pid = U32(0, 1234)
    /\ upstream = "wide"
    /\ workers = [w \in 1..1 |-> IdleWorker]

\* Every endpoint, TLS block and process id, one worker.
InitBuild ==
    /\ config \in {PapertrailConfig(ep, EncodingConfig("Json", None, None), tls) :
                      ep \in Endpoints, tls \in TlsOptions}
    /\ os_pid \in Pids
    /\ upstream = "few"
    /\ workers = [w \in 1..1 |-> IdleWorker]

\* Several workers running the encoder at once.
InitConcurrent ==
    /\ config \in {PapertrailConfig(GoodEndpoint, EncodingConfig(c, None, Some({magic_key})), None) :
                      c \in Codecs}
    /\ os_pid = U32(0, 1234)
    /\ upstream = "few"
    /\ workers = [w \in 1..NumWorkers |-> IdleWorker]

Init ==
    /\ sink = Unbuilt
    /\ clock = 0
    /\ crashed = FALSE
    /\ (InitEncode \/ InitBuild \/ InitConcurrent)

\* PapertrailConfig::build, run once.
Build ==
    /\ sink.state = "unbuilt"
    /\ sink' = build(config, os_pid)
    /\ UNCHANGED <<config, os_pid, upstream, clock, workers, crashed>>

\* The wall clock advances.
Tick ==
    /\ clock < MaxClock
    /\ clock' = clock + 1
    /\ UNCHANGED <<config, os_pid, upstream, sink, workers, crashed>>

\* The transport invokes the encoder closure of the built sink on an event.
Receive(w, e) ==
    /\ sink.state = "built"
    /\ ~crashed
    /\ workers[w].pc = "idle"
    /\ workers' = [workers EXCEPT ![w] = [IdleWorker EXCEPT !.pc = "called", !.event = e, !.log = e]]
    /\ UNCHANGED <<config, os_pid, upstream, sink, clock, crashed>>

\* Lines 77-88: the host is taken out of the event and the formatter built.
ExtractHostStep(w) ==
    /\ workers[w].pc = "called"
    /\ LET h == ExtractHost(workers[w].log)
       IN  workers' = [workers EXCEPT ![w].pc = "hosted", ![w].log = h.log,
                                      ![w].formatter = MakeFormatter(h.host, sink.pid)]
    /\ UNCHANGED <<config, os_pid, upstream, sink, clock, crashed>>

\* ApplyRulesStep without the call of apply_rules.
ApplyRulesStepSkipped(w) ==
    /\ workers[w].pc = "hosted"
    /\ workers' = [workers EXCEPT ![w].pc = "filtered"]
    /\ UNCHANGED <<config, os_pid, upstream, sink, clock, crashed>>

\* Lines 90-93: encoding.apply_rules(&mut event).
ApplyRulesStep(w) ==
    /\ workers[w].pc = "hosted"
    /\ workers' = [workers EXCEPT ![w].pc = "filtered",
                                  ![w].log = apply_rules(sink.encoding, workers[w].log)]
    /\ UNCHANGED <<config, os_pid, upstream, sink, clock, crashed>>

\* Lines 95-101: the message; the unwrap of a failed serialization panics.
SerializeStep(w) ==
    /\ workers[w].pc = "filtered"
    /\ LET m == Message(sink.encoding, workers[w].log)
       IN  /\ workers' = [workers EXCEPT ![w].pc = IF m.ok THEN "serialized" ELSE "panicked",
                                         ![w].message = m.s]
           /\ crashed' = (crashed \/ ~m.ok)
    /\ UNCHANGED <<config, os_pid, upstream, sink, clock>>

\* FormatStep writing into a buffer shared by the calls and never cleared:
\* the line comes after the bytes another call left there.
FormatStepSharedBuffer(w) ==
    /\ workers[w].pc = "serialized"
    /\ LET others == {v \in (DOMAIN workers) \ {w} : workers[v].out.some}
           left == IF others = {} THEN <<>> ELSE workers[CHOOSE v \in others : TRUE].out.v
       IN  workers' = [workers EXCEPT ![w].pc = "done", ![w].t = clock,
                          ![w].out = Some(left \o Frame(workers[w].formatter, clock, workers[w].message))]
    /\ UNCHANGED <<config, os_pid, upstream, sink, clock, crashed>>

\* Lines 103-109: the line is formatted at the current time, the newline
\* pushed and the bytes returned.
FormatStep(w) ==
    /\ workers[w].pc = "serialized"
    /\ workers' = [workers EXCEPT ![w].pc = "done", ![w].t = clock,
                                  ![w].out = Some(Frame(workers[w].formatter, clock, workers[w].message))]
    /\ UNCHANGED <<config, os_pid, upstream, sink, clock, crashed>>

\* The transport takes the bytes the closure returned; the worker is free
\* for the next event.
Deliver(w) ==
    /\ workers[w].pc = "done"
    /\ workers' = [workers EXCEPT ![w] = IdleWorker]
    /\ UNCHANGED <<config, os_pid, upstream, sink, clock, crashed>>

Next ==
    \/ Build
    \/ Tick
    \/ \E w \in DOMAIN workers : \E e \in UpstreamEvents(upstream) : Receive(w, e)
    \/ \E w \in DOMAIN workers : ExtractHostStep(w)
    \/ \E w \in DOMAIN workers : ApplyRulesStep(w)
    \/ \E w \in DOMAIN workers : SerializeStep(w)
    \/ \E w \in DOMAIN workers : FormatStep(w)
    \/ \E w \in DOMAIN workers : Deliver(w)

Spec == Init /\ [][Next]_vars

(* ------------------------------ reading the wire ----------------------- *)

\* The first position at which p occurs in s, or 0.
FindFirst(s, p) ==
    IF \E i \in 1..Len(s) : OccursAt(s, p, i)
    THEN CHOOSE i \in 1..Len(s) :
            OccursAt(s, p, i) /\ \A j \in 1..(i - 1) : ~OccursAt(s, p, j)
    ELSE 0

\* The body of an encoded line as the test cuts it out: what follows the
\* first ": ", without the final byte.
BodyOf(bytes) == SubSeq(bytes, FindFirst(bytes, <<":", " ">>) + 2, Len(bytes) - 1)

W == DOMAIN workers

Returned(w) == workers[w].pc = "done"

Wire(w) == workers[w].out.v

\* The keys of an event that are neither the host key nor taken out by the
\* filter of the encoding policy.
Kept(encoding, event) ==
    {k \in (DOMAIN event) \ {host_key} :
        /\ (encoding.except_fields.some => k \notin encoding.except_fields.v)
        /\ (encoding.only_fields.some => k \in encoding.only_fields.v)}

\* A value of an event as a JSON value that is equal to it: a non-finite
\* number has none, and stands for itself.
SameAsJson(v) ==
    IF v.t = "Bytes" THEN JString(v.s)
    ELSE IF v.t = "Integer" THEN JNumber(v.n)
    ELSE [t |-> "NonFinite", s |-> v.s, n |-> 0]

\* The display string of the host field of an event, if it has one.
HostOf(event) ==
    IF host_key \in DOMAIN event THEN Some(to_string_lossy(event[host_key])) ELSE None

(* ------------------------------ C1 ------------------------------------- *)

\* C1: with the Json codec and an except_fields list, the body of every
\* encoded line is a valid JSON object that has no key of except_fields.
C1_ExceptFieldsNotInJsonBody ==
    \A w \in W :
        (Returned(w) /\ sink.encoding.codec = "Json" /\ sink.encoding.except_fields.some)
        => LET p == from_slice(BodyOf(Wire(w)))
           IN  /\ p.ok
               /\ (DOMAIN p.map) \cap sink.encoding.except_fields.v = {}

\* The scenario of the test: {message: "vector", magic: "key"}, Json,
\* except_fields = ["magic"], encoded.
C1_Witness ==
    \E w \in W :
        /\ Returned(w)
        /\ sink.encoding.codec = "Json"
        /\ sink.encoding.except_fields.some
        /\ sink.encoding.except_fields.v = {magic_key}
        /\ workers[w].event = Ev2(message_key, Bytes(Vector), magic_key, Bytes(KeyStr))
        /\ DOMAIN from_slice(BodyOf(Wire(w))).map = {message_key}

(* ------------------------------ C2 ------------------------------------- *)

\* Has worker w returned from a Json call on an event whose filtered
\* fields hold a value that JSON cannot represent?
ReturnedUnrepresentable(w) ==
    /\ Returned(w)
    /\ sink.encoding.codec = "Json"
    /\ \E k \in Kept(sink.encoding, workers[w].event) : ~Representable(workers[w].event[k])

\* C2: an event with a value that JSON cannot represent is
\* rejected (the call returns no bytes), and the pipeline keeps encoding.
C2_SerializationFailureIsRejection ==
    /\ ~crashed
    /\ \A w \in W : ReturnedUnrepresentable(w) => ~workers[w].out.some

(* ------------------------------ C3 ------------------------------------- *)

\* C3: every encoded line is non-empty, ends with a newline and has no
\* other newline before it.
C3_OneRecordPerEvent ==
    \A w \in W :
        Returned(w)
        => /\ workers[w].out.some
           /\ Len(Wire(w)) >= 1
           /\ Wire(w)[Len(Wire(w))] = NL
           /\ \A i \in 1..(Len(Wire(w)) - 1) : Wire(w)[i] # NL

(* ------------------------------ C4 ------------------------------------- *)

PastHost(w) == workers[w].pc \in {"hosted", "filtered", "serialized", "panicked", "done"}

\* The start of a line for a given hostname, up to the process name.
LineStart(host, t) ==
    <<"<", "1", "4", ">">> \o Timestamp(t) \o <<" ">>
    \o (IF host.some THEN host.v \o <<" ">> ELSE <<>>) \o ProcessName \o <<"[">>

\* C4: the hostname of the envelope is the display string of the host field
\* (unset without one) for either codec and any filter; the host is taken
\* out before the filter and the serialization run, and the host key is
\* never a key of the JSON body.
C4_HostExtractedFirst ==
    \A w \in W :
        /\ PastHost(w)
           => /\ workers[w].formatter.hostname = HostOf(workers[w].event)
              /\ host_key \notin DOMAIN workers[w].log
        /\ workers[w].pc = "hosted"
           => /\ workers[w].log = Remove(workers[w].event, host_key)
              /\ workers[w].message = <<>>
        /\ Returned(w)
           => /\ StartsWith(Wire(w), LineStart(HostOf(workers[w].event), workers[w].t))
              /\ sink.encoding.codec = "Json"
                 => LET p == from_slice(BodyOf(Wire(w)))
                    IN  p.ok /\ host_key \notin DOMAIN p.map

\* An event with a host, encoded as JSON under an allow-list that names the
\* host key.
C4_Witness ==
    \E w \in W :
        /\ Returned(w)
        /\ host_key \in DOMAIN workers[w].event
        /\ workers[w].event[host_key] = Bytes(Vector)
        /\ sink.encoding.codec = "Json"
        /\ sink.encoding.only_fields.some
        /\ sink.encoding.only_fields.v = {host_key, message_key}
        /\ workers[w].formatter.hostname.some
        /\ workers[w].formatter.hostname.v = Vector

(* ------------------------------ C5 ------------------------------------- *)

\* C5: with the Json codec the body parses back to exactly the
\* fields of the event other than the host field and those the filter
\* removes, every value unchanged.
C5_JsonRoundTripExact ==
    \A w \in W :
        (Returned(w) /\ sink.encoding.codec = "Json")
        => LET p == from_slice(BodyOf(Wire(w)))
               kept == Kept(sink.encoding, workers[w].event)
           IN  /\ p.ok
               /\ p.map = [k \in kept |-> SameAsJson(workers[w].event[k])]

(* ------------------------------ C6 ------------------------------------- *)

\* C6: with the Text codec the body is the display string of the message
\* field of the filtered event, and empty when that field is absent.
C6_TextBodyIsMessage ==
    \A w \in W :
        (Returned(w) /\ sink.encoding.codec = "Text")
        => BodyOf(Wire(w)) =
              IF message_key \in Kept(sink.encoding, workers[w].event)
              THEN to_string_lossy(workers[w].event[message_key])
              ELSE <<>>

\* The message was removed by only_fields while another field stayed: the
\* body is empty.
C6_Witness ==
    \E w \in W :
        /\ Returned(w)
        /\ sink.encoding.codec = "Text"
        /\ sink.encoding.only_fields.some
        /\ sink.encoding.only_fields.v = {magic_key}
        /\ message_key \in DOMAIN workers[w].event
        /\ magic_key \in DOMAIN workers[w].event
        /\ BodyOf(Wire(w)) = <<>>

(* ------------------------------ C7 ------------------------------------- *)

\* C7: a missing host is reported first, then a missing port; otherwise the
\* address is "host:port".  After an error there is no transport and the
\* encoder never runs.
C7_EndpointResolution ==
    LET ep == config.endpoint
    IN  /\ sink.state # "unbuilt"
           => /\ ~ep.host.some => (sink.state = "failed" /\ sink.error = MissingHost)
              /\ (ep.host.some /\ ~ep.port.some)
                 => (sink.state = "failed" /\ sink.error = MissingPort)
              /\ (ep.host.some /\ ep.port.some)
                 => /\ sink.state = "built"
                    /\ sink.address = ep.host.v \o <<":">> \o IntDecimal(ep.port.v)
              /\ (ep.host.some /\ ep.port.some /\ ep.port.v = 12345)
                 => sink.address = LogsHost \o <<":", "1", "2", "3", "4", "5">>
        /\ sink.state # "built"
           => /\ sink.address = <<>>
              /\ ~sink.tls.some
              /\ \A w \in W : workers[w].pc = "idle"

\* Host and port both missing: the build failed with the missing-host error.
C7_Witness ==
    /\ sink.state = "failed"
    /\ ~config.endpoint.host.some
    /\ ~config.endpoint.port.some
    /\ sink.error = MissingHost

(* ------------------------------ C8 ------------------------------------- *)

\* C8: the transport always gets a TLS policy: the tls block of the
\* configuration as it is, or the enabled default when there is none.
C8_TlsNeverAbsent ==
    sink.state = "built"
    => /\ sink.tls.some
       /\ config.tls.some => sink.tls.v = config.tls.v
       /\ ~config.tls.some => sink.tls.v = TlsConfig("true", "None")

\* A sink built from a configuration without a tls block.
C8_Witness ==
    /\ sink.state = "built"
    /\ ~config.tls.some
    /\ sink.tls.some
    /\ sink.tls.v.enabled = "true"

(* ------------------------------ C9 ------------------------------------- *)

\* C9 as stated: what a call returns depends on the event (and the fixed
\* pid and policy) alone, so two calls on the same event return the same
\* bytes.
C9_OutcomeOfEventOnly ==
    \A w1, w2 \in W :
        (Returned(w1) /\ Returned(w2) /\ workers[w1].event = workers[w2].event)
        => workers[w1].out = workers[w2].out

\* C9, amended: in every interleaving, what a call returns is what
\* encode_event alone yields for its event, the pid and policy captured at
\* build time and the reading of the clock at which the line is formatted;
\* pid and policy stay as captured; a call has no output before it returns
\* its complete line.
C9_CallsAreIndependent ==
    /\ sink.state = "built" => (sink.pid = os_pid /\ sink.encoding = config.encoding)
    /\ \A w \in W :
          LET r == encode_event(workers[w].event, os_pid, config.encoding, workers[w].t)
          IN  /\ Returned(w) => (r.kind = "Some" /\ workers[w].out = Some(r.bytes))
              /\ ~Returned(w) => ~workers[w].out.some

\* Two workers hold the lines of the same event, formatted at different
\* readings of the clock.
C9_Witness ==
    \E w1, w2 \in W :
        /\ w1 # w2
        /\ Returned(w1)
        /\ Returned(w2)
        /\ workers[w1].event = workers[w2].event
        /\ workers[w1].t # workers[w2].t
        /\ workers[w1].out # workers[w2].out

(* ------------------------------ C10 ------------------------------------ *)

\* C10: the pid of the envelope is the process id captured at build time,
\* for every 32-bit unsigned process id; the facility is user-level, the
\* severity informational and the process name the fixed one.
C10_EnvelopeCarriesPid ==
    /\ sink.state = "built" => sink.pid = os_pid
    /\ \A w \in W :
          /\ PastHost(w)
             => LET f == workers[w].formatter
                IN  /\ f.pid >= 0
                    /\ f.pid \div 65536 = os_pid.hi
                    /\ f.pid % 65536 = os_pid.lo
                    /\ f.facility = LOG_USER
                    /\ f.process = ProcessName
          /\ Returned(w) => StartsWith(Wire(w), <<"<", "1", "4", ">">>)

====
